---- MODULE Spec2Model ----
(***************************************************************************)
(* Model of rusty-tags' src/types.rs: the naming of tags files             *)
(* (SourceKind::tags_file_name, TagsSpec), the staleness probe             *)
(* (Tags::is_up_to_date) and the composition of the tags roots (TagsRoot). *)
(*                                                                         *)
(* A Rust String is a sequence of one-character strings, so that format!   *)
(* is concatenation and two different inputs can render the same name.     *)
(* A PathBuf is a sequence of components, each component a String.         *)
(***************************************************************************)
EXTENDS Naturals, Sequences, FiniteSets

VARIABLES
    config,      \* the selected kind and the two configured file names
    tags_spec,   \* the AppResult<TagsSpec> of the last TagsSpec::new, or NoSpec
    src_a,       \* a SourceKind
    src_b,       \* a second SourceKind
    names,       \* names[x][kind]: the last tags_file_name of source x under a spec of that kind
    fs,          \* the filesystem: what stat finds at each path
    tags,        \* the Tags artifact
    result,      \* what the last is_up_to_date call returned and surfaced
    proj_deps,   \* the project's direct dependencies (resolver input)
    lib_deps,    \* each library's direct dependencies (resolver input)
    queue,       \* composition: the identities still to visit
    visited,     \* composition: the visited-set
    roots,       \* composition: the TagsRoots emitted so far
    pc           \* composition: "start", "expand" or "done"

vars == <<config, tags_spec, src_a, src_b, names, fs, tags, result,
          proj_deps, lib_deps, queue, visited, roots, pc>>

namingVars == <<config, tags_spec, src_a, src_b, names>>
probeVars  == <<fs, tags, result>>
rootsVars  == <<proj_deps, lib_deps, queue, visited, roots, pc>>

----------------------------------------------------------------------------
(* Bounds and input alphabets *)

\* longest library name, commit hash and version string drawn as input
MaxLen == 3

\* number of dependency identities the resolver may report
NumLibs == 3

\* the characters library names and discriminators are drawn from: "a" stands
\* for any letter or digit, "-" is the separator that crate names ("a-a") and
\* version strings ("a-a", as in 1.0.0-beta) may hold
Chars == {"a", "-"}

\* library names, commit hashes and version strings are not empty and begin
\* with a letter or digit
Strings == {s \in UNION {[1..n -> Chars] : n \in 1..MaxLen} : s[1] = "a"}

\* commit hashes are hexadecimal: they hold no separator
Hashes == {s \in Strings : \A i \in 1..Len(s) : s[i] = "a"}

\* the file names the configuration offers for vi_tags and emacs_tags
FileNames == {<<"t", "a", "g", "s">>, <<"T", "A", "G", "S">>}

\* source directories of the project and of a dependency; a path is the
\* sequence of its components
ProjDir == << <<"p", "r", "o", "j">> >>

DepDir == << <<"d", "e", "p">> >>

SrcDirs == {ProjDir, DepDir}

\* the directory the tags files of Git and CratesIo sources are cached in
CacheDir == << <<"c", "a", "c", "h", "e">> >>

----------------------------------------------------------------------------
(* TagsKind and TagsSpec *)

TagsKind == {"Vi", "Emacs"}

NoSpec == [ok |-> FALSE, err |-> "unconstructed"]

TagsSpecNewUnchecked(kind, vi_tags, emacs_tags) ==
    [ok |-> TRUE, kind |-> kind, vi_tags |-> vi_tags, emacs_tags |-> emacs_tags]

TagsSpecNew(kind, vi_tags, emacs_tags) ==
    IF vi_tags = emacs_tags
    THEN [ok |-> FALSE, err |-> "same tags name"]
    ELSE [ok |-> TRUE, kind |-> kind, vi_tags |-> vi_tags, emacs_tags |-> emacs_tags]

file_extension_always_vi(spec) ==
    <<"v", "i">>

file_extension(spec) ==
    IF spec.kind = "Vi" THEN <<"v", "i">> ELSE <<"e", "m", "a", "c", "s">>

file_name(spec) ==
    IF spec.kind = "Vi" THEN spec.vi_tags ELSE spec.emacs_tags

----------------------------------------------------------------------------
(* SourceKind *)

Git(lib_name, commit_hash) ==
    [variant |-> "Git", lib_name |-> lib_name, commit_hash |-> commit_hash]

CratesIo(lib_name, version) ==
    [variant |-> "CratesIo", lib_name |-> lib_name, version |-> version]

Path(lib_name, path) ==
    [variant |-> "Path", lib_name |-> lib_name, path |-> path]

CachedKinds ==
    {Git(l, h) : l \in Strings, h \in Hashes} \cup
    {CratesIo(l, v) : l \in Strings, v \in Strings}

PathKinds == {Path(l, p) : l \in Strings, p \in SrcDirs}

SourceKinds == CachedKinds \cup PathKinds

\* the commit hash or the version string of a Git or CratesIo source
Discriminator(src) ==
    IF src.variant = "Git" THEN src.commit_hash ELSE src.version

FormatNameNoDisc(lib_name, disc, ext) ==
    lib_name \o <<".">> \o ext

\* format!("{}-{}.{}", lib_name, discriminator, extension)
FormatName(lib_name, disc, ext) ==
    lib_name \o <<"-">> \o disc \o <<".">> \o ext

tags_file_name_of_path_by_lib(src, spec) ==
    CASE src.variant = "Git" ->
           FormatName(src.lib_name, src.commit_hash, file_extension(spec))
      [] src.variant = "CratesIo" ->
           FormatName(src.lib_name, src.version, file_extension(spec))
      [] src.variant = "Path" ->
           src.lib_name \o <<".">> \o file_extension(spec)

tags_file_name(src, spec) ==
    CASE src.variant = "Git" ->
           FormatName(src.lib_name, src.commit_hash, file_extension(spec))
      [] src.variant = "CratesIo" ->
           FormatName(src.lib_name, src.version, file_extension(spec))
      [] src.variant = "Path" ->
           file_name(spec)

----------------------------------------------------------------------------
(* Naming: TagsSpec::new and SourceKind::tags_file_name applied to inputs *)

NoName == <<"?">>

NoNames == [x \in {"a", "b"} |-> [k \in TagsKind |-> NoName]]

\* the parts of the state the naming operations leave alone
IdleProbe ==
    /\ fs = <<>>
    /\ tags = [src_dir |-> <<>>, tags_file |-> <<>>, cached |-> FALSE]
    /\ result = [called |-> FALSE, value |-> FALSE, warning |-> "none", prev |-> "none"]

IdleRoots ==
    /\ proj_deps = {}
    /\ lib_deps = <<>>
    /\ queue = <<>>
    /\ visited = {}
    /\ roots = <<>>
    /\ pc = "idle"

Configs == [kind : TagsKind, vi_tags : FileNames, emacs_tags : FileNames]

\* TagsSpec::new(config.kind, config.vi_tags, config.emacs_tags)
New ==
    /\ tags_spec = NoSpec
    /\ tags_spec' = TagsSpecNew(config.kind, config.vi_tags, config.emacs_tags)
    /\ UNCHANGED <<config, src_a, src_b, names>>
    /\ UNCHANGED <<probeVars, rootsVars>>

\* a later run selects the other kind of tags; its TagsSpec is yet to be built
SwitchKind ==
    /\ tags_spec # NoSpec
    /\ config' = [config EXCEPT !.kind = IF @ = "Vi" THEN "Emacs" ELSE "Vi"]
    /\ tags_spec' = NoSpec
    /\ UNCHANGED <<src_a, src_b, names>>
    /\ UNCHANGED <<probeVars, rootsVars>>

\* src.tags_file_name(&tags_spec), for src the source called x
TagsFileName(x) ==
    /\ tags_spec.ok
    /\ LET src == IF x = "a" THEN src_a ELSE src_b
       IN names' = [names EXCEPT ![x][tags_spec.kind] = tags_file_name(src, tags_spec)]
    /\ UNCHANGED <<config, tags_spec, src_a, src_b>>
    /\ UNCHANGED <<probeVars, rootsVars>>

InitNames ==
    /\ config \in Configs
    /\ tags_spec = NoSpec
    /\ src_a \in SourceKinds
    /\ src_b = src_a
    /\ names = NoNames
    /\ IdleProbe
    /\ IdleRoots

NextNames ==
    \/ New
    \/ SwitchKind
    \/ TagsFileName("a")

SpecNames == InitNames /\ [][NextNames]_vars

\* two sources named under one TagsSpec, as the files of one cache directory are
InitCollide ==
    /\ config \in {c \in Configs : TagsSpecNew(c.kind, c.vi_tags, c.emacs_tags).ok}
    /\ tags_spec = TagsSpecNew(config.kind, config.vi_tags, config.emacs_tags)
    /\ src_a \in CachedKinds
    /\ src_b \in CachedKinds
    /\ names = NoNames
    /\ IdleProbe
    /\ IdleRoots

NextCollide ==
    \/ TagsFileName("a")
    \/ names["a"][config.kind] # NoName /\ TagsFileName("b")

SpecCollide == InitCollide /\ [][NextCollide]_vars

----------------------------------------------------------------------------
(* The filesystem and Tags *)

\* what stat finds at a path: nothing, a regular file, a directory, or an
\* error other than "not found" (permission denied)
EntryKinds == {"absent", "file", "dir", "denied"}

\* PathBuf::push of a file name
Push(path, name) == Append(path, name)

\* the Git or CratesIo dependency whose tags file lives in the cache directory
CachedLib == CratesIo(<<"a">>, <<"a">>)

\* the paths of the filesystem: a file of either configured name in each source
\* directory, and the cached tags file of CachedLib
Paths(spec) ==
    {Push(d, n) : d \in SrcDirs, n \in FileNames} \cup
    {Push(CacheDir, tags_file_name(CachedLib, spec))}

\* std::fs::metadata
Metadata(p) ==
    CASE fs[p] = "absent" -> [ok |-> FALSE, kind |-> "NotFound"]
      [] fs[p] = "denied" -> [ok |-> FALSE, kind |-> "PermissionDenied"]
      [] OTHER -> [ok |-> TRUE, kind |-> fs[p]]

is_file_unless_denied(p) ==
    IF Metadata(p).ok THEN Metadata(p).kind = "file" ELSE Metadata(p).kind # "NotFound"

\* Path::is_file: metadata(p).map(|m| m.is_file()).unwrap_or(false)
is_file(p) ==
    IF Metadata(p).ok THEN Metadata(p).kind = "file" ELSE FALSE

\* Tags::new
TagsNew(src_dir, tags_file, cached) ==
    [src_dir |-> src_dir, tags_file |-> tags_file, cached |-> cached]

is_up_to_date_trusting_cached(t, spec) ==
    t.cached

is_up_to_date_ignoring_cached(t, spec) ==
    is_file(Push(t.src_dir, file_name(spec)))

is_up_to_date_of_tags_file(t, spec) ==
    IF ~t.cached THEN FALSE ELSE is_file(t.tags_file)

\* Tags::is_up_to_date
is_up_to_date(t, spec) ==
    IF ~t.cached
    THEN FALSE
    ELSE is_file(Push(t.src_dir, file_name(spec)))

NotCalled(prev) == [called |-> FALSE, value |-> FALSE, warning |-> "none", prev |-> prev]

\* the caller has moved on from the value the last call returned
Consumed ==
    NotCalled(IF result.called THEN (IF result.value THEN "true" ELSE "false") ELSE result.prev)

\* the environment (a generation run, a cleanup, a chmod) changes one path
SetEntry(p, k) ==
    /\ fs[p] # k
    /\ fs' = [fs EXCEPT ![p] = k]
    /\ result' = Consumed
    /\ UNCHANGED tags
    /\ UNCHANGED <<namingVars, rootsVars>>

CreateFile(p) == fs[p] = "absent" /\ SetEntry(p, "file")

CreateDir(p) == fs[p] = "absent" /\ SetEntry(p, "dir")

Remove(p) == fs[p] \in {"file", "dir"} /\ SetEntry(p, "absent")

\* the path stops being readable, whatever lies there
Revoke(p) == SetEntry(p, "denied")

\* the path becomes readable again
Restore(p) == \E k \in {"absent", "file", "dir"} : fs[p] = "denied" /\ SetEntry(p, k)

IsUpToDateTouching ==
    /\ result' = [called |-> TRUE,
                  value |-> is_up_to_date(tags, tags_spec),
                  warning |-> "none",
                  prev |-> Consumed.prev]
    /\ fs' = [fs EXCEPT ![Push(tags.src_dir, file_name(tags_spec))] = "file"]
    /\ UNCHANGED tags
    /\ UNCHANGED <<namingVars, rootsVars>>

\* a call of tags.is_up_to_date(&tags_spec): a bool is all that comes back
IsUpToDate ==
    /\ result' = [called |-> TRUE,
                  value |-> is_up_to_date(tags, tags_spec),
                  warning |-> "none",
                  prev |-> Consumed.prev]
    /\ UNCHANGED <<fs, tags>>
    /\ UNCHANGED <<namingVars, rootsVars>>

\* a fresh tree; the artifact is the project's or a path dependency's (its tags
\* file lies in its source directory) or a Git/CratesIo dependency's (its tags
\* file lies in the cache directory)
InitProbe ==
    /\ config \in {c \in Configs : TagsSpecNew(c.kind, c.vi_tags, c.emacs_tags).ok}
    /\ tags_spec = TagsSpecNew(config.kind, config.vi_tags, config.emacs_tags)
    /\ src_a = CachedLib
    /\ src_b = CachedLib
    /\ names = NoNames
    /\ fs = [p \in Paths(tags_spec) |-> "absent"]
    /\ \E src_dir \in SrcDirs, cached \in BOOLEAN :
         \E tags_file \in {Push(src_dir, file_name(tags_spec)),
                            Push(CacheDir, tags_file_name(CachedLib, tags_spec))} :
            tags = TagsNew(src_dir, tags_file, cached)
    /\ result = NotCalled("none")
    /\ IdleRoots

NextProbe ==
    \/ \E p \in DOMAIN fs : CreateFile(p)
    \/ \E p \in DOMAIN fs : CreateDir(p)
    \/ \E p \in DOMAIN fs : Remove(p)
    \/ \E p \in DOMAIN fs : Revoke(p)
    \/ \E p \in DOMAIN fs : Restore(p)
    \/ IsUpToDate

SpecProbe == InitProbe /\ [][NextProbe]_vars

----------------------------------------------------------------------------
(* TagsRoot and the composition of the tags roots *)

\* TagsRoot::Proj
Proj(root_dir, dependencies) ==
    [variant |-> "Proj", root_dir |-> root_dir, dependencies |-> dependencies]

\* TagsRoot::Lib
Lib(src_kind, dependencies) ==
    [variant |-> "Lib", src_kind |-> src_kind, dependencies |-> dependencies]

\* the i-th dependency identity: libraries "a", "aa", ... each from crates.io
\* and from a git repository
LibId(i) ==
    LET name == [j \in 1..((i + 1) \div 2) |-> "a"]
    IN IF i % 2 = 1 THEN CratesIo(name, <<"a">>) ELSE Git(name, <<"a">>)

LibIds == {LibId(i) : i \in 1..NumLibs}

\* a Vec<SourceKind> holding the identities of a set
RECURSIVE SeqOf(_)
SeqOf(S) ==
    IF S = {}
    THEN <<>>
    ELSE LET x == CHOOSE y \in S : TRUE
         IN <<x>> \o SeqOf(S \ {x})

FreshAlways(id) == TRUE

\* the identity is not yet in the visited-set
Fresh(id) == id \notin visited

\* step 1: one Proj root with the project's direct dependencies as they are
Start ==
    /\ pc = "start"
    /\ roots' = <<Proj(ProjDir, SeqOf(proj_deps))>>
    /\ queue' = SeqOf(proj_deps)
    /\ pc' = "expand"
    /\ UNCHANGED <<proj_deps, lib_deps, visited>>
    /\ UNCHANGED <<namingVars, probeVars>>

\* step 2: an identity reached for the first time gets its Lib root
Emit ==
    /\ pc = "expand"
    /\ queue # <<>>
    /\ Fresh(Head(queue))
    /\ roots' = Append(roots, Lib(Head(queue), SeqOf(lib_deps[Head(queue)])))
    /\ visited' = visited \cup {Head(queue)}
    /\ queue' = Tail(queue) \o SeqOf(lib_deps[Head(queue)])
    /\ UNCHANGED <<proj_deps, lib_deps, pc>>
    /\ UNCHANGED <<namingVars, probeVars>>

\* step 3: an identity reached again is skipped
Skip ==
    /\ pc = "expand"
    /\ queue # <<>>
    /\ ~Fresh(Head(queue))
    /\ queue' = Tail(queue)
    /\ UNCHANGED <<proj_deps, lib_deps, visited, roots, pc>>
    /\ UNCHANGED <<namingVars, probeVars>>

Finish ==
    /\ pc = "expand"
    /\ queue = <<>>
    /\ pc' = "done"
    /\ UNCHANGED <<proj_deps, lib_deps, queue, visited, roots>>
    /\ UNCHANGED <<namingVars, probeVars>>

\* the resolver's output: any acyclic graph over the identities
InitRoots ==
    /\ proj_deps \in SUBSET LibIds
    /\ lib_deps \in [LibIds -> SUBSET LibIds]
    /\ \A i, j \in 1..NumLibs : LibId(j) \in lib_deps[LibId(i)] => i < j
    /\ queue = <<>>
    /\ visited = {}
    /\ roots = <<>>
    /\ pc = "start"
    /\ config = [kind |-> "Vi", vi_tags |-> <<"t", "a", "g", "s">>, emacs_tags |-> <<"T", "A", "G", "S">>]
    /\ tags_spec = NoSpec
    /\ src_a = CachedLib
    /\ src_b = CachedLib
    /\ names = NoNames
    /\ IdleProbe

NextRoots ==
    \/ Start
    \/ Emit
    \/ Skip
    \/ Finish

SpecRoots == InitRoots /\ [][NextRoots]_vars

----------------------------------------------------------------------------
(* Properties of the naming *)

\* the file name the configuration gives the kind k
ConfiguredName(k) == IF k = "Vi" THEN config.vi_tags ELSE config.emacs_tags

Named(x, k) == names[x][k] # NoName

\* C1: TagsSpec::new fails exactly when vi_tags equals emacs_tags, and otherwise
\* returns a spec holding the kind and both names it was given.
C1_NewFailsIffNamesEqual ==
    tags_spec # NoSpec =>
        IF config.vi_tags = config.emacs_tags
        THEN ~tags_spec.ok
        ELSE /\ tags_spec.ok
             /\ tags_spec.kind = config.kind
             /\ tags_spec.vi_tags = config.vi_tags
             /\ tags_spec.emacs_tags = config.emacs_tags

\* TagsSpec::new was called with two equal names and has failed
C1_Witness ==
    /\ tags_spec # NoSpec
    /\ config.vi_tags = config.emacs_tags
    /\ ~tags_spec.ok

\* C4 as stated: under one TagsSpec, two Git/CratesIo sources whose discriminators
\* differ get different tags file names, whatever their library names.
C4_DiscriminatorsSeparateNames ==
    (Named("a", config.kind) /\ Named("b", config.kind)
        /\ Discriminator(src_a) # Discriminator(src_b))
    => names["a"][config.kind] # names["b"][config.kind]

\* C4 amended: under one TagsSpec, two Git/CratesIo sources of the same library
\* name whose discriminators differ get different tags file names.
C4_SameLibDiscriminatorsSeparateNames ==
    (Named("a", config.kind) /\ Named("b", config.kind)
        /\ src_a.lib_name = src_b.lib_name
        /\ Discriminator(src_a) # Discriminator(src_b))
    => names["a"][config.kind] # names["b"][config.kind]

\* both names are computed for one library at two different discriminators
C4_Witness ==
    /\ Named("a", config.kind) /\ Named("b", config.kind)
    /\ src_a.lib_name = src_b.lib_name
    /\ src_a.variant # src_b.variant
    /\ Discriminator(src_a) # Discriminator(src_b)

\* C5: for a Path source the tags file name is the configured name of the active
\* kind, whatever the source's path and library name.
C5_PathNameIsFileName ==
    \A k \in TagsKind :
        (src_a.variant = "Path" /\ Named("a", k)) => names["a"][k] = ConfiguredName(k)

\* a Path source with a non-empty library name has been named
C5_Witness ==
    /\ src_a.variant = "Path"
    /\ Named("a", "Vi")
    /\ Named("a", "Emacs")

\* C6: a source named under a Vi spec and under an Emacs spec built from the same
\* two file names gets two different tags file names.
C6_KindsSeparateNames ==
    (Named("a", "Vi") /\ Named("a", "Emacs")) => names["a"]["Vi"] # names["a"]["Emacs"]

\* a source has been named under both kinds
C6_Witness ==
    /\ Named("a", "Vi") /\ Named("a", "Emacs")
    /\ src_a.variant = "Path"

----------------------------------------------------------------------------
(* Properties of the staleness probe.  result.called holds exactly in the   *)
(* states a call of is_up_to_date has just produced: there fs is the        *)
(* filesystem of the moment of the call.                                    *)

\* the marker: the file of the active kind's configured name in the source directory
MarkerPath == tags.src_dir \o <<ConfiguredName(config.kind)>>

InCache(p) == SubSeq(p, 1, Len(CacheDir)) = CacheDir

\* C2: an artifact built with cached = false is never reported up to date,
\* whatever the filesystem holds.
C2_UncachedNeverUpToDate ==
    (result.called /\ ~tags.cached) => result.value = FALSE

\* an uncached artifact has been probed with its marker file present
C2_Witness ==
    /\ result.called
    /\ ~tags.cached
    /\ fs[MarkerPath] = "file"

\* C3: an artifact built with cached = true is reported up to date exactly when
\* the marker is a file in its source directory at the moment of the call,
\* whatever creations and deletions came before.
C3_CachedUpToDateIffMarker ==
    (result.called /\ tags.cached) => (result.value <=> fs[MarkerPath] = "file")

\* a call returned true, the marker was deleted, and the next call returned false
C3_Witness ==
    /\ result.called
    /\ tags.cached
    /\ result.prev = "true"
    /\ fs[MarkerPath] = "absent"
    /\ result.value = FALSE

\* C8: a call of is_up_to_date changes neither the filesystem nor the artifact.
C8_ProbeIsReadOnly ==
    [][result'.called => (fs' = fs /\ tags' = tags)]_vars

\* a call has returned on a tree that holds the marker and the tags file
C8_Witness ==
    /\ result.called
    /\ tags.tags_file # MarkerPath
    /\ fs[MarkerPath] = "file"
    /\ fs[tags.tags_file] = "file"

\* C9 as stated: when the probe of the marker of a cached artifact meets an error
\* other than "not found", the artifact is reported not up to date and the error
\* is surfaced as a warning.
C9_ProbeErrorIsWarned ==
    (result.called /\ tags.cached /\ fs[MarkerPath] = "denied")
    => (result.value = FALSE /\ result.warning # "none")

\* C9 amended: in that case the artifact is reported not up to date and nothing
\* else comes back: the error is swallowed.
C9_ProbeErrorIsSwallowed ==
    (result.called /\ tags.cached /\ fs[MarkerPath] = "denied")
    => (result.value = FALSE /\ result.warning = "none")

\* a cached artifact has been probed while its marker could not be read
C9_Witness ==
    /\ result.called
    /\ tags.cached
    /\ fs[MarkerPath] = "denied"

\* C10: the result is the same whatever path tags_file is; with tags_file apart
\* from the marker, a cached artifact whose marker is a file is up to date though
\* its tags_file is gone, and one whose marker is no file is not up to date though
\* its tags_file is there.
C10_TagsFileIsNotProbed ==
    result.called =>
        /\ \A q \in DOMAIN fs :
              result.value = is_up_to_date([tags EXCEPT !.tags_file = q], tags_spec)
        /\ tags.tags_file # MarkerPath =>
              /\ (tags.cached /\ fs[MarkerPath] = "file" /\ fs[tags.tags_file] # "file")
                    => result.value = TRUE
              /\ (fs[MarkerPath] # "file" /\ fs[tags.tags_file] = "file")
                    => result.value = FALSE

\* a dependency whose tags file is missing from the cache directory is reported
\* up to date
C10_Witness ==
    /\ result.called
    /\ result.value = TRUE
    /\ InCache(tags.tags_file)
    /\ fs[tags.tags_file] = "absent"

----------------------------------------------------------------------------
(* Properties of the composition *)

\* the identities reachable from the project along the dependency edges
RECURSIVE ReachWithin(_, _)
ReachWithin(S, n) ==
    IF n = 0
    THEN S
    ELSE ReachWithin(S \cup UNION {lib_deps[x] : x \in S}, n - 1)

Reachable == ReachWithin(proj_deps, NumLibs)

ProjRoots == {i \in DOMAIN roots : roots[i].variant = "Proj"}

LibRootsOf(id) == {i \in DOMAIN roots : roots[i].variant = "Lib" /\ roots[i].src_kind = id}

\* root -> {A, B}, A -> {C}, B -> {C}
IsDiamond ==
    /\ proj_deps = {LibId(1), LibId(2)}
    /\ lib_deps[LibId(1)] = {LibId(3)}
    /\ lib_deps[LibId(2)] = {LibId(3)}
    /\ lib_deps[LibId(3)] = {}

\* C7: the composed roots hold exactly one Proj root and exactly one Lib root for
\* each identity reachable from the project and none for any other; the diamond
\* graph yields four roots.
C7_OneRootPerIdentity ==
    pc = "done" =>
        /\ Cardinality(ProjRoots) = 1
        /\ \A id \in LibIds :
              Cardinality(LibRootsOf(id)) = IF id \in Reachable THEN 1 ELSE 0
        /\ IsDiamond => Len(roots) = 4

\* the composition of the diamond graph is done
C7_Witness ==
    /\ pc = "done"
    /\ IsDiamond
    /\ Cardinality(LibRootsOf(LibId(3))) = 1

====
